---- MODULE Spec2Model ----
(***************************************************************************)
(* Distributed bitonic sort over MPI (src/arbitrary.cpp).  The file holds  *)
(* two programs: the arbitrary-sequence sort (lines 1-194) and the         *)
(* bitonic-sequence merge (lines 196-335).  Every MPI process is a rank    *)
(* with a private buffer; point-to-point messages travel on one FIFO       *)
(* channel per ordered pair of ranks (a single tag, 123, is used).         *)
(***************************************************************************)
EXTENDS Integers, Sequences, FiniteSets, Bags, TLC

VARIABLES
    prog,          \* which program runs: "arbitrary" or "bitonic"; "unit" in the unit specifications
    sched,         \* how the ranks are scheduled: "any" order, or in "rankorder"
    nb_instances,  \* MPI_Comm_size
    n,             \* cnodes * 2
    pc,            \* pc[r]: position of rank r in its program
    k,             \* k[r]: width of the current level (arbitrary program)
    m,             \* m[r]: m of the halving loop
    step,          \* step[r]: step of the halving loop
    gi,            \* gi[r]: loop variable i of the manual gather
    buf,           \* buf[r]: the rank's buffer, indices 0..n-1
    chan,          \* chan[<<s, d>>]: messages sent by s to d and not yet received
    sentAt,        \* sentAt[<<s, d>>]: for each message of chan[<<s, d>>], the k and pc of s when it sent it
    scat,          \* scat[r]: chunk of MPI_Scatter on its way to rank r
    gath,          \* gath[r]: chunk rank r contributed to MPI_Gather
    A,             \* the sequence rank 0 starts with (A of lines 136 / 278, or the shuffled iota)
    entry,         \* entry[r]: for each bitonicSort call of master r, its buf[0..k) on entry
    ret,           \* ret[r]: for each bitonicSort call of master r, its buf[0..k) on return
    sendMode,      \* how MPI_Send completes: "buffered" (on its own) or "synchronous"
    mayLose,       \* whether the transport may still lose a message
    lost,          \* the messages the transport lost: <<source, destination, k, pc of the source>>
    oob,           \* buffer indices outside [0, n) that were accessed: <<rank, index>>
    csBuf, csN, csAsc, csOrig, csPrev, csSwapped, csCalls,   \* compareSwap unit state
    subHalf, subStep, subOffset, subNodes, subCalled, subRank, subResult   \* isInSubset unit state

distVars == <<prog, sched, sendMode, mayLose, lost, nb_instances, n, pc, k, m, step, gi, buf, chan, sentAt, scat, gath, A, entry, ret, oob>>
csVars == <<csBuf, csN, csAsc, csOrig, csPrev, csSwapped, csCalls>>
subVars == <<subHalf, subStep, subOffset, subNodes, subCalled, subRank, subResult>>
vars == <<distVars, csVars, subVars>>

----------------------------------------------------------------------------
(* Bounds of the model *)

\* values of a compareSwap unit buffer are 0..MaxVal
MaxVal == 2
\* length of a compareSwap unit buffer is at most MaxLen
MaxLen == 4
\* isInSubset unit: half is at most MaxHalf
MaxHalf == 8
\* isInSubset unit: offset is at most MaxOffset
MaxOffset == 2
\* the programs run with at most MaxInstances MPI processes
MaxInstances == 9
\* ranks stepped in rank order: the shuffled sequence is at most MaxSwaps element
\* swaps away from the iota
MaxSwaps == 2
\* ranks stepped in any order: the shuffled sequence is a fixed scrambled sequence
\* rotated by at most MaxFreeRot places
MaxFreeRot == 1
\* ranks stepped in rank order: a bitonic input is rotated by at most MaxRot places
MaxRot == 7
\* ranks are stepped in any order when n is at most MaxFreeN
MaxFreeN == 8

----------------------------------------------------------------------------
(* compareSwap, lines 34-44 (and 229-239) *)

\* a swap whatever the order of the two elements
swapTakenAlways(sub, i, half, ascending) == TRUE

\* the condition of the if at line 37: ascending ^ (subsequence[i] < subsequence[i+half])
swapTaken(sub, i, half, ascending) == ascending # (sub[i] < sub[i + half])

\* the swap without the temporary
swapBodyNoTemp(sub, i, half) ==
    [sub EXCEPT ![i] = sub[i + half]]

\* lines 39-41
swapBody(sub, i, half) ==
    [sub EXCEPT ![i] = sub[i + half], ![i + half] = sub[i]]

RECURSIVE compareSwapLoop(_, _, _, _)
\* the for loop of line 36, from index i on
compareSwapLoop(sub, i, half, ascending) ==
    IF i < half
    THEN compareSwapLoop(IF swapTaken(sub, i, half, ascending)
                         THEN swapBody(sub, i, half) ELSE sub,
                         i + 1, half, ascending)
    ELSE sub

\* the loop started at i = 1
compareSwapFromOne(sub, n_elements, ascending) ==
    compareSwapLoop(sub, 1, n_elements \div 2, ascending)

compareSwap(sub, n_elements, ascending) ==
    compareSwapLoop(sub, 0, n_elements \div 2, ascending)

RECURSIVE swapIndicesLoop(_, _, _, _)
\* the indices i at which the loop of line 36 enters the swap branch
swapIndicesLoop(sub, i, half, ascending) ==
    IF i < half
    THEN (IF swapTaken(sub, i, half, ascending) THEN {i} ELSE {})
         \cup swapIndicesLoop(IF swapTaken(sub, i, half, ascending)
                              THEN swapBody(sub, i, half) ELSE sub,
                              i + 1, half, ascending)
    ELSE {}

----------------------------------------------------------------------------
(* isInSubset, lines 58-64 (and 253-259) *)

RECURSIVE subsetNodesLoopInclusive(_, _, _, _, _)
\* the loop with the test i <= half
subsetNodesLoopInclusive(nodes, i, half, stp, offset) ==
    IF i <= half
    THEN subsetNodesLoopInclusive(Append(nodes, i + offset), i + (half \div stp),
                                  half, stp, offset)
    ELSE nodes

RECURSIVE subsetNodesLoop(_, _, _, _, _)
\* the for loop of line 60 from i on; nodes is the vector built so far
subsetNodesLoop(nodes, i, half, stp, offset) ==
    IF i < half
    THEN subsetNodesLoop(Append(nodes, i + offset), i + (half \div stp), half, stp, offset)
    ELSE nodes

subsetNodes(half, stp, offset) == subsetNodesLoop(<<>>, 0, half, stp, offset)

\* the lambda of line 63, which captured nodes, applied to rank
inNodes(nodes, rank) == \E j \in 1..Len(nodes) : nodes[j] = rank

\* isInSubset(half, step, offset)(rank)
isInSubset(half, stp, offset, rank) == inNodes(subsetNodes(half, stp, offset), rank)

----------------------------------------------------------------------------
(* compareSwap unit specification *)

CsInit ==
    /\ csN \in 0..MaxLen
    /\ \E len \in 0..MaxLen :
         /\ csN <= len
         /\ csBuf \in [0..(len - 1) -> 0..MaxVal]
    /\ csAsc \in BOOLEAN
    /\ csOrig = csBuf
    /\ csPrev = csBuf
    /\ csSwapped = {}
    /\ csCalls = 0

\* one call compareSwap(csBuf, csN, csAsc)
CsCall ==
    /\ csCalls < 2
    /\ csPrev' = csBuf
    /\ csBuf' = compareSwap(csBuf, csN, csAsc)
    /\ csSwapped' = swapIndicesLoop(csBuf, 0, csN \div 2, csAsc)
    /\ csCalls' = csCalls + 1
    /\ UNCHANGED <<csN, csAsc, csOrig>>

----------------------------------------------------------------------------
(* isInSubset unit specification *)

SubInit ==
    /\ subHalf \in 1..MaxHalf
    /\ subStep \in 1..subHalf
    /\ subOffset \in 0..MaxOffset
    /\ subNodes = <<>>
    /\ subCalled = FALSE
    /\ subRank = -1
    /\ subResult = FALSE

\* one call isInSubset(subHalf, subStep, subOffset): the vector captured by the lambda
SubCall ==
    /\ ~subCalled
    /\ subNodes' = subsetNodes(subHalf, subStep, subOffset)
    /\ subCalled' = TRUE
    /\ UNCHANGED <<subHalf, subStep, subOffset, subRank, subResult>>

\* the returned lambda applied to a rank
SubQuery ==
    /\ subCalled
    /\ \E rank \in 0..(MaxHalf + MaxOffset) :
         /\ subRank' = rank
         /\ subResult' = inNodes(subNodes, rank)
    /\ UNCHANGED <<subHalf, subStep, subOffset, subNodes, subCalled>>

----------------------------------------------------------------------------
(* The two MPI programs *)

Ranks == 0..(nb_instances - 1)

\* a cell of int buf[n] (lines 130, 272) that was never written
Uninit == -1

\* what a read outside the buffer, or of a cell never written, may yield
JunkValues == {0, 99}

\* the values a read of cell content c may yield
readOf(c) == IF c = Uninit THEN JunkValues ELSE {c}

\* a message one element short of the count
SliceShort(b, off, cnt) == [j \in 1..(cnt - 1) |-> b[off + j - 1]]

\* buf[off .. off+cnt) as a message
Slice(b, off, cnt) == [j \in 1..cnt |-> b[off + j - 1]]

\* the message stored at the start of the buffer, whatever the offset
PutAtZero(b, off, msg) ==
    [j \in DOMAIN b |-> IF j < Len(msg) THEN msg[j + 1] ELSE b[j]]

\* the message stored at buf[off ..); cells outside the buffer are not kept
Put(b, off, msg) ==
    [j \in DOMAIN b |-> IF off <= j /\ j < off + Len(msg) THEN msg[j - off + 1] ELSE b[j]]

\* MPI_Send(.., d, tag, MPI_COMM_WORLD) by s: the message is buffered on the channel,
\* or the transport loses it
Send(s, d, msg) ==
    \/ /\ chan' = [chan EXCEPT ![<<s, d>>] = Append(@, msg)]
       /\ sentAt' = [sentAt EXCEPT ![<<s, d>>] = Append(@, <<k[s], pc[s]>>)]
       /\ UNCHANGED <<mayLose, lost>>
    \/ /\ mayLose
       /\ chan' = chan /\ sentAt' = sentAt
       /\ mayLose' = FALSE
       /\ lost' = lost \cup {<<s, d, k[s], pc[s]>>}

\* MPI_Recv(.., s, tag, ..) by d can return: a message from s is there
CanRecv(s, d) == <<s, d>> \in DOMAIN chan /\ chan[<<s, d>>] # <<>>

\* the test of line 157 with k = kk: the next level, or line 184
levelOrDone(kk) == IF kk <= n THEN "level" ELSE "done"

\* the loop of lines 160-171 has an i equal to rank r
inRegroup(r) == r < n \div 2 /\ r % (k[r] \div 4) = 0

\* every rank of the loop its own master
regroupMasterSelf(r) == r

\* the master always k/4 below the rank
regroupMasterBelow(r) == r - (k[r] \div 4)

\* master_node of line 162
regroupMaster(r) == IF r % (k[r] \div 2) = 0 THEN r ELSE r - (k[r] \div 4)

\* the i of the loop of lines 174-180 whose group holds rank r, as a set (empty or one i)
groupIndex(r) ==
    {i \in 0..((n \div k[r]) - 1) :
        i * (k[r] \div 2) <= r /\ r < i * (k[r] \div 2) + (k[r] \div 2)}

\* master_node of bitonicSort (line 175); 0 in the bitonic program (line 304)
masterOf(r) ==
    IF prog = "bitonic" THEN 0
    ELSE (CHOOSE i \in groupIndex(r) : TRUE) * (k[r] \div 2)

\* every group merged ascending
ascendingOfAlways(r) == TRUE

\* ascending of bitonicSort (line 177); true in the bitonic program (line 273)
ascendingOf(r) ==
    IF prog = "bitonic" THEN TRUE
    ELSE (CHOOSE i \in groupIndex(r) : TRUE) % 2 = 0

\* the nodes of isASender, lines 87 / 304
senderNodes(r) == subsetNodes(k[r] \div 2, step[r], masterOf(r))

\* the receivers offset by m instead of m / 2
receiverNodesFar(r) == subsetNodes(k[r] \div 2, step[r], masterOf(r) + m[r])

\* no node in the receiver subset
receiverNodesEmpty(r) == <<>>

\* the nodes of isAReceiver, lines 88 / 305
receiverNodes(r) == subsetNodes(k[r] \div 2, step[r], masterOf(r) + (m[r] \div 2))

\* isASender(rank) of lines 90 / 307
isASender(r) == inNodes(senderNodes(r), r)

\* no rank takes the receiver branch
isNeverAReceiver(r) == FALSE

\* isAReceiver(rank) of lines 94 / 311
isAReceiver(r) == inNodes(receiverNodes(r), r)

\* the rank next to the sender
receiverNext(r) == r + 1

\* receiver of lines 91 / 308
receiver(r) == r + (m[r] \div 2)

\* sender of lines 95 / 312
sender(r) == r - (m[r] \div 2)

\* the lower half instead of the upper half
upperHalfLow(b, mm) == Slice(b, 0, mm)

\* &buf[m], m of lines 92 / 309: the upper half a sender transmits
upperHalf(b, mm) == Slice(b, mm, mm)

\* rank d is in an MPI_Recv whose source is s: lines 166, 168, 96 / 313, 114
recvPosted(d, s) ==
    \/ pc[d] = "regroup1" /\ s = d
    \/ pc[d] = "regroup2" /\ s = d + (k[d] \div 4)
    \/ pc[d] = "round" /\ m[d] > 1 /\ ~isASender(d) /\ isAReceiver(d) /\ s = sender(d)
    \/ /\ pc[d] = "gather" /\ prog = "arbitrary"
       /\ d = masterOf(d) /\ gi[d] < k[d] \div 2 /\ s = d + gi[d]

\* MPI_Send by s to d can return: at once when sends are buffered; when they are
\* synchronous, once d has posted the matching receive
sendMayComplete(s, d) == IF sendMode = "buffered" THEN TRUE ELSE recvPosted(d, s)

----------------------------------------------------------------------------
(* The sequences rank 0 starts with *)

\* A of line 136
A_arbitrary == <<10, 6, 14, 11, 9, 16, 3, 13, 8, 12, 5, 2, 4, 15, 1, 7>>

\* A of line 278
A_bitonic == <<14, 16, 15, 11, 9, 8, 7, 5, 4, 2, 1, 3, 6, 10, 12, 13>>

\* std::iota(buf, buf + n, 0), lines 143 / 285
iota(nn) == [j \in 1..nn |-> j - 1]

swapAt(s, a, b) == [s EXCEPT ![a] = s[b], ![b] = s[a]]

RECURSIVE shuffled(_, _)
\* std::shuffle (lines 144 / 286) is a sequence of element swaps chosen by the random
\* engine; the sequences at most d swaps away from s
shuffled(s, d) ==
    IF d = 0 THEN {s}
    ELSE shuffled(s, d - 1) \cup
         UNION {{swapAt(t, a, b) : t \in shuffled(s, d - 1)} :
                    <<a, b>> \in {p \in (1..Len(s)) \X (1..Len(s)) : p[1] < p[2]}}

RECURSIVE sortedAsc(_)
\* std::sort with < (line 292) of the elements S
sortedAsc(S) ==
    IF S = {} THEN <<>>
    ELSE LET lo == CHOOSE x \in S : \A y \in S : x <= y
         IN  <<lo>> \o sortedAsc(S \ {lo})

RECURSIVE sortedDesc(_)
\* std::sort with > (line 290) of the elements S
sortedDesc(S) ==
    IF S = {} THEN <<>>
    ELSE LET hi == CHOOSE x \in S : \A y \in S : x >= y
         IN  <<hi>> \o sortedDesc(S \ {hi})

\* lines 285-292: the first split elements of a shuffled iota sorted decreasing, the
\* others increasing, split = rand() % n
splitSorted(nn) ==
    {sortedDesc(S) \o sortedAsc((0..(nn - 1)) \ S) :
        S \in {T \in SUBSET (0..(nn - 1)) : Cardinality(T) < nn}}

\* s rotated left by d places
rotated(s, d) == [j \in 1..Len(s) |-> s[((j - 1 + d) % Len(s)) + 1]]

\* the sequence as the buffer of rank 0
asBuffer(s) == [j \in 0..(Len(s) - 1) |-> s[j + 1]]

----------------------------------------------------------------------------
(* Initial states of the two programs *)

\* the process counts whose n = 2 * (nb_instances - 1) is a power of two >= 4
Instances == {p \in 3..MaxInstances : \E e \in 2..MaxInstances : 2 * (p - 1) = 2 ^ e}

\* the order pattern of the first nn elements of s, as a sequence over 0..nn-1
pattern(s, nn) ==
    [j \in 1..nn |-> Cardinality({i \in 1..nn : s[i] < s[j]})]

\* lines 134-146: A when n is 16, a shuffled iota otherwise.  The shuffles explored
\* are bounded: near the iota when the ranks run in rank order, rotations of one
\* scrambled sequence when they run in any order
arbitraryInputs(nn, sc) ==
    IF nn = 16 THEN {A_arbitrary}
    ELSE IF sc = "rankorder" THEN shuffled(iota(nn), MaxSwaps)
    ELSE {rotated(pattern(A_arbitrary, nn), d) : d \in 0..MaxFreeRot}

\* lines 276-294: A when n is 16, a split-sorted shuffled iota otherwise; in rank order
\* also its rotations, which stand for bitonic sequences given from outside
bitonicInputs(nn, sc) ==
    IF nn = 16 THEN {A_bitonic}
    ELSE IF sc = "rankorder"
         THEN {rotated(s, d) : s \in splitSorted(nn), d \in 0..MaxRot}
         ELSE splitSorted(nn)

\* the unit variables when a program runs
csIdle ==
    /\ csBuf = <<>> /\ csN = 0 /\ csAsc = TRUE /\ csOrig = <<>> /\ csPrev = <<>>
    /\ csSwapped = {} /\ csCalls = 0

subIdle ==
    /\ subHalf = 1 /\ subStep = 1 /\ subOffset = 0 /\ subNodes = <<>>
    /\ subCalled = FALSE /\ subRank = -1 /\ subResult = FALSE

\* the program variables in the unit specifications
distIdle ==
    /\ prog = "unit" /\ sched = "any" /\ sendMode = "buffered" /\ nb_instances = 0 /\ n = 0
    /\ mayLose = FALSE /\ lost = {}
    /\ pc = <<>> /\ k = <<>> /\ m = <<>> /\ step = <<>> /\ gi = <<>> /\ buf = <<>>
    /\ chan = <<>> /\ sentAt = <<>> /\ scat = <<>> /\ gath = <<>> /\ A = <<>>
    /\ entry = <<>> /\ ret = <<>> /\ oob = {}

\* the program, the number of processes (lines 124, 128-129) and the scheduler
setup ==
    /\ prog \in {"arbitrary", "bitonic"}
    /\ nb_instances \in Instances
    /\ n = (nb_instances - 1) * 2
    /\ sched \in {"rankorder"} \cup (IF n <= MaxFreeN THEN {"any"} ELSE {})
    /\ sendMode = "buffered"
    /\ mayLose = FALSE /\ lost = {}

\* one input for each program and n: A when n is 16, else the order pattern of the
\* first n elements of A
oneInput(p, nn) ==
    LET a == IF p = "arbitrary" THEN A_arbitrary ELSE A_bitonic
    IN  IF nn = 16 THEN a ELSE pattern(a, nn)

\* the ranks before their first step, rank 0 holding A
start ==
    /\ buf = [r \in Ranks |-> IF r = 0 THEN asBuffer(A) ELSE [j \in 0..(n - 1) |-> Uninit]]
    /\ pc = [r \in Ranks |-> IF prog = "arbitrary" THEN "scatter"
                             ELSE IF r = 0 THEN "start"
                             ELSE IF n \div 2 > 1 THEN "round" ELSE "gather"]
    /\ k = [r \in Ranks |-> IF prog = "arbitrary" THEN 0 ELSE n]
    /\ m = [r \in Ranks |-> IF prog = "arbitrary" THEN 0 ELSE n \div 2]
    /\ step = [r \in Ranks |-> IF prog = "arbitrary" THEN 0 ELSE 1]
    /\ gi = [r \in Ranks |-> 0]
    /\ chan = [p \in Ranks \X Ranks |-> <<>>]
    /\ sentAt = [p \in Ranks \X Ranks |-> <<>>]
    /\ scat = [r \in Ranks |-> <<>>]
    /\ gath = [r \in Ranks |-> <<>>]
    /\ entry = [r \in Ranks |-> <<>>]
    /\ ret = [r \in Ranks |-> <<>>]
    /\ oob = {}

DistInit ==
    /\ setup
    /\ A \in (IF prog = "arbitrary" THEN arbitraryInputs(n, sched)
              ELSE bitonicInputs(n, sched))
    /\ start

Init == DistInit /\ csIdle /\ subIdle

\* both programs, every n and both schedulers, on one input each
OneInputInit ==
    /\ setup
    /\ A = oneInput(prog, n)
    /\ start
    /\ csIdle /\ subIdle

----------------------------------------------------------------------------
(* Arbitrary-sequence program, lines 119-194 *)

\* MPI_Scatter at the root (line 152) and the compareSwap of line 153: chunk r is
\* buf[2r], buf[2r+1] of the root, for every rank of the communicator; a cell read
\* outside the buffer travels as Uninit and takes its value where it is stored
ScatterRoot(r) ==
    /\ prog = "arbitrary" /\ r = 0 /\ pc[r] = "scatter"
    /\ LET cell(i) == IF i < n THEN buf[r][i] ELSE Uninit
       IN  scat' = [d \in Ranks |-> IF d = r THEN <<>> ELSE <<cell(2 * d), cell(2 * d + 1)>>]
    /\ oob' = oob \cup {<<r, j>> : j \in n..(2 * nb_instances - 1)}
    /\ buf' = [buf EXCEPT ![r] = compareSwap(@, 2, r % 2 = 0)]
    /\ k' = [k EXCEPT ![r] = 4]
    /\ pc' = [pc EXCEPT ![r] = levelOrDone(4)]
    /\ UNCHANGED <<prog, sched, sendMode, mayLose, lost, sentAt, nb_instances, n, m, step, gi, chan, gath, A, entry, ret>>

\* MPI_Scatter at another rank (line 152) and the compareSwap of line 153
ScatterRecv(r) ==
    /\ prog = "arbitrary" /\ r # 0 /\ pc[r] = "scatter"
    /\ scat[r] # <<>>
    /\ \E v0 \in readOf(scat[r][1]), v1 \in readOf(scat[r][2]) :
         buf' = [buf EXCEPT ![r] = compareSwap(Put(@, 0, <<v0, v1>>), 2, r % 2 = 0)]
    /\ scat' = [scat EXCEPT ![r] = <<>>]
    /\ k' = [k EXCEPT ![r] = 4]
    /\ pc' = [pc EXCEPT ![r] = levelOrDone(4)]
    /\ UNCHANGED <<prog, sched, sendMode, mayLose, lost, sentAt, nb_instances, n, m, step, gi, chan, gath, A, entry, ret, oob>>

\* lines 161-163: the rank sends its first k/2 elements to the master of its new group
RegroupSend(r) ==
    /\ prog = "arbitrary" /\ pc[r] = "level" /\ k[r] <= n
    /\ inRegroup(r)
    /\ sendMayComplete(r, regroupMaster(r))
    /\ Send(r, regroupMaster(r), Slice(buf[r], 0, k[r] \div 2))
    /\ pc' = [pc EXCEPT ![r] = IF r = regroupMaster(r) THEN "regroup1" ELSE "sort"]
    /\ UNCHANGED <<prog, sched, sendMode, nb_instances, n, k, m, step, gi, buf, scat, gath, A, entry, ret, oob>>

\* line 166: the master receives the first half, from itself
RegroupRecvFirst(r) ==
    /\ prog = "arbitrary" /\ pc[r] = "regroup1"
    /\ CanRecv(r, r)
    /\ buf' = [buf EXCEPT ![r] = Put(@, 0, Head(chan[<<r, r>>]))]
    /\ chan' = [chan EXCEPT ![<<r, r>>] = Tail(@)]
    /\ sentAt' = [sentAt EXCEPT ![<<r, r>>] = Tail(@)]
    /\ pc' = [pc EXCEPT ![r] = "regroup2"]
    /\ UNCHANGED <<prog, sched, sendMode, mayLose, lost, nb_instances, n, k, m, step, gi, scat, gath, A, entry, ret, oob>>

\* line 168: the master receives the second half, from rank i + k/4
RegroupRecvSecond(r) ==
    /\ prog = "arbitrary" /\ pc[r] = "regroup2"
    /\ CanRecv(r + (k[r] \div 4), r)
    /\ buf' = [buf EXCEPT ![r] = Put(@, k[r] \div 2, Head(chan[<<r + (k[r] \div 4), r>>]))]
    /\ chan' = [chan EXCEPT ![<<r + (k[r] \div 4), r>>] = Tail(@)]
    /\ sentAt' = [sentAt EXCEPT ![<<r + (k[r] \div 4), r>>] = Tail(@)]
    /\ pc' = [pc EXCEPT ![r] = "sort"]
    /\ UNCHANGED <<prog, sched, sendMode, mayLose, lost, nb_instances, n, k, m, step, gi, scat, gath, A, entry, ret, oob>>

\* the rank is at the loop of lines 174-180
atSort(r) ==
    \/ pc[r] = "sort"
    \/ pc[r] = "level" /\ k[r] <= n /\ ~inRegroup(r)

\* lines 174-178 and 77-84: the rank enters bitonicSort for its group
BitonicSortEnter(r) ==
    /\ prog = "arbitrary" /\ atSort(r)
    /\ groupIndex(r) # {}
    /\ m' = [m EXCEPT ![r] = k[r] \div 2]
    /\ step' = [step EXCEPT ![r] = 1]
    /\ gi' = [gi EXCEPT ![r] = 1]
    /\ IF r = masterOf(r)
       THEN /\ buf' = [buf EXCEPT ![r] = compareSwap(@, k[r], ascendingOf(r))]
            /\ entry' = [entry EXCEPT ![r] = Append(@, Slice(buf[r], 0, k[r]))]
       ELSE UNCHANGED <<buf, entry>>
    /\ pc' = [pc EXCEPT ![r] = "round"]
    /\ UNCHANGED <<prog, sched, sendMode, mayLose, lost, sentAt, nb_instances, n, k, chan, scat, gath, A, ret, oob>>

\* lines 174-181 for a rank that is in no group of this level
LevelIdle(r) ==
    /\ prog = "arbitrary" /\ atSort(r)
    /\ groupIndex(r) = {}
    /\ k' = [k EXCEPT ![r] = 2 * k[r]]
    /\ pc' = [pc EXCEPT ![r] = levelOrDone(2 * k[r])]
    /\ UNCHANGED <<prog, sched, sendMode, mayLose, lost, sentAt, nb_instances, n, m, step, gi, buf, chan, scat, gath, A, entry, ret, oob>>

----------------------------------------------------------------------------
(* The halving loop, lines 85-102 of bitonicSort and 302-319 of the bitonic program *)

\* the loop without step *= 2
nextRoundSameStep(r) ==
    /\ m' = [m EXCEPT ![r] = m[r] \div 2]
    /\ step' = step
    /\ pc' = [pc EXCEPT ![r] = IF m[r] \div 2 > 1 THEN "round" ELSE "gather"]

\* lines 100-101 and the loop test of line 85
nextRound(r) ==
    /\ m' = [m EXCEPT ![r] = m[r] \div 2]
    /\ step' = [step EXCEPT ![r] = step[r] * 2]
    /\ pc' = [pc EXCEPT ![r] = IF m[r] \div 2 > 1 THEN "round" ELSE "gather"]

\* lines 90-93
RoundSend(r) ==
    /\ pc[r] = "round" /\ m[r] > 1
    /\ isASender(r)
    /\ sendMayComplete(r, receiver(r))
    /\ Send(r, receiver(r), upperHalf(buf[r], m[r]))
    /\ buf' = [buf EXCEPT ![r] = compareSwap(@, m[r], ascendingOf(r))]
    /\ nextRound(r)
    /\ UNCHANGED <<prog, sched, sendMode, nb_instances, n, k, gi, scat, gath, A, entry, ret, oob>>

\* lines 94-97
RoundRecv(r) ==
    /\ pc[r] = "round" /\ m[r] > 1
    /\ ~isASender(r) /\ isAReceiver(r)
    /\ CanRecv(sender(r), r)
    /\ buf' = [buf EXCEPT ![r] =
                 compareSwap(Put(@, 0, Head(chan[<<sender(r), r>>])),
                             m[r], ascendingOf(r))]
    /\ chan' = [chan EXCEPT ![<<sender(r), r>>] = Tail(@)]
    /\ sentAt' = [sentAt EXCEPT ![<<sender(r), r>>] = Tail(@)]
    /\ nextRound(r)
    /\ UNCHANGED <<prog, sched, sendMode, mayLose, lost, nb_instances, n, k, gi, scat, gath, A, entry, ret, oob>>

\* lines 90-101 for a rank that is neither a sender nor a receiver
RoundIdle(r) ==
    /\ pc[r] = "round" /\ m[r] > 1
    /\ ~isASender(r) /\ ~isAReceiver(r)
    /\ nextRound(r)
    /\ UNCHANGED <<prog, sched, sendMode, mayLose, lost, sentAt, nb_instances, n, k, gi, buf, chan, scat, gath, A, entry, ret, oob>>

----------------------------------------------------------------------------
(* The manual gather of bitonicSort, lines 108-116, and the return to line 181 *)

\* lines 108-110, then k *= 2
GatherSend(r) ==
    /\ prog = "arbitrary" /\ pc[r] = "gather"
    /\ r # masterOf(r)
    /\ sendMayComplete(r, masterOf(r))
    /\ Send(r, masterOf(r), Slice(buf[r], 0, 2))
    /\ k' = [k EXCEPT ![r] = 2 * k[r]]
    /\ pc' = [pc EXCEPT ![r] = levelOrDone(2 * k[r])]
    /\ UNCHANGED <<prog, sched, sendMode, nb_instances, n, m, step, gi, buf, scat, gath, A, entry, ret, oob>>

\* lines 113-115: one iteration of the master's loop; after the last one, k *= 2
GatherRecv(r) ==
    /\ prog = "arbitrary" /\ pc[r] = "gather"
    /\ r = masterOf(r)
    /\ gi[r] < k[r] \div 2
    /\ CanRecv(r + gi[r], r)
    /\ LET b == Put(buf[r], 2 * gi[r], Head(chan[<<r + gi[r], r>>]))
       IN  /\ buf' = [buf EXCEPT ![r] = b]
           /\ IF gi[r] + 1 < k[r] \div 2
              THEN UNCHANGED <<k, pc, ret>>
              ELSE /\ k' = [k EXCEPT ![r] = 2 * k[r]]
                   /\ pc' = [pc EXCEPT ![r] = levelOrDone(2 * k[r])]
                   /\ ret' = [ret EXCEPT ![r] = Append(@, Slice(b, 0, k[r]))]
    /\ chan' = [chan EXCEPT ![<<r + gi[r], r>>] = Tail(@)]
    /\ sentAt' = [sentAt EXCEPT ![<<r + gi[r], r>>] = Tail(@)]
    /\ gi' = [gi EXCEPT ![r] = gi[r] + 1]
    /\ UNCHANGED <<prog, sched, sendMode, mayLose, lost, nb_instances, n, m, step, scat, gath, A, entry, oob>>

----------------------------------------------------------------------------
(* Bitonic-sequence program, lines 261-335 *)

\* lines 296-299
FirstCompareSwap(r) ==
    /\ prog = "bitonic" /\ r = 0 /\ pc[r] = "start"
    /\ buf' = [buf EXCEPT ![r] = compareSwap(@, n, ascendingOf(r))]
    /\ entry' = [entry EXCEPT ![r] = Append(@, Slice(buf[r], 0, n))]
    /\ pc' = [pc EXCEPT ![r] = IF m[r] > 1 THEN "round" ELSE "gather"]
    /\ UNCHANGED <<prog, sched, sendMode, mayLose, lost, sentAt, nb_instances, n, k, m, step, gi, chan, scat, gath, A, ret, oob>>

\* MPI_Gather at a rank other than the root (line 323): it gives buf[0], buf[1]
GatherContribute(r) ==
    /\ prog = "bitonic" /\ r # 0 /\ pc[r] = "gather"
    /\ \E v0 \in readOf(buf[r][0]), v1 \in readOf(buf[r][1]) :
         gath' = [gath EXCEPT ![r] = <<v0, v1>>]
    /\ pc' = [pc EXCEPT ![r] = "done"]
    /\ UNCHANGED <<prog, sched, sendMode, mayLose, lost, sentAt, nb_instances, n, k, m, step, gi, buf, chan, scat, A, entry, ret, oob>>

\* MPI_Gather at the root (line 323): the chunk of rank d is stored at buf[2d], buf[2d+1],
\* for every rank of the communicator
GatherRoot(r) ==
    /\ prog = "bitonic" /\ r = 0 /\ pc[r] = "gather"
    /\ \A d \in Ranks \ {r} : gath[d] # <<>>
    /\ LET b == [j \in DOMAIN buf[r] |->
                   IF j \div 2 = r THEN buf[r][j] ELSE gath[j \div 2][(j % 2) + 1]]
       IN  /\ buf' = [buf EXCEPT ![r] = b]
           /\ ret' = [ret EXCEPT ![r] = Append(@, Slice(b, 0, n))]
    /\ oob' = oob \cup {<<r, j>> : j \in n..(2 * nb_instances - 1)}
    /\ pc' = [pc EXCEPT ![r] = "done"]
    /\ UNCHANGED <<prog, sched, sendMode, mayLose, lost, sentAt, nb_instances, n, k, m, step, gi, chan, scat, gath, A, entry>>

----------------------------------------------------------------------------
(* Specifications *)

\* one step of rank r
rankStep(r) ==
    \/ ScatterRoot(r)
    \/ ScatterRecv(r)
    \/ RegroupSend(r)
    \/ RegroupRecvFirst(r)
    \/ RegroupRecvSecond(r)
    \/ BitonicSortEnter(r)
    \/ LevelIdle(r)
    \/ RoundSend(r)
    \/ RoundRecv(r)
    \/ RoundIdle(r)
    \/ GatherSend(r)
    \/ GatherRecv(r)
    \/ FirstCompareSwap(r)
    \/ GatherContribute(r)
    \/ GatherRoot(r)

\* rank r cannot take a step: it has finished, or it waits in a receive (lines 96, 114,
\* 166, 168, 313) or in a collective (lines 152, 323) for data that is not there, or
\* in a send (lines 92, 110, 163, 309) that cannot complete
blocked(r) ==
    \/ pc[r] = "done"
    \/ /\ pc[r] = "level" /\ k[r] <= n /\ inRegroup(r)
       /\ ~sendMayComplete(r, regroupMaster(r))
    \/ pc[r] = "round" /\ m[r] > 1 /\ isASender(r) /\ ~sendMayComplete(r, receiver(r))
    \/ /\ pc[r] = "gather" /\ prog = "arbitrary" /\ r # masterOf(r)
       /\ ~sendMayComplete(r, masterOf(r))
    \/ pc[r] = "scatter" /\ r # 0 /\ scat[r] = <<>>
    \/ pc[r] = "regroup1" /\ ~CanRecv(r, r)
    \/ pc[r] = "regroup2" /\ ~CanRecv(r + (k[r] \div 4), r)
    \/ pc[r] = "round" /\ ~isASender(r) /\ isAReceiver(r) /\ ~CanRecv(sender(r), r)
    \/ pc[r] = "gather" /\ prog = "arbitrary" /\ r = masterOf(r) /\ ~CanRecv(r + gi[r], r)
    \/ pc[r] = "gather" /\ prog = "bitonic" /\ r = 0 /\ \E d \in Ranks \ {r} : gath[d] = <<>>

\* the scheduler lets rank r run: always when the order is free; in rank order, when
\* no lower rank can take a step
mayRun(r) ==
    \/ sched = "any"
    \/ \A q \in 0..(r - 1) : blocked(q)

\* the unit variables are not used by the programs
unitSame == UNCHANGED <<csVars, subVars>>

Next ==
    \/ \E r \in Ranks : mayRun(r) /\ ScatterRoot(r) /\ unitSame
    \/ \E r \in Ranks : mayRun(r) /\ ScatterRecv(r) /\ unitSame
    \/ \E r \in Ranks : mayRun(r) /\ RegroupSend(r) /\ unitSame
    \/ \E r \in Ranks : mayRun(r) /\ RegroupRecvFirst(r) /\ unitSame
    \/ \E r \in Ranks : mayRun(r) /\ RegroupRecvSecond(r) /\ unitSame
    \/ \E r \in Ranks : mayRun(r) /\ BitonicSortEnter(r) /\ unitSame
    \/ \E r \in Ranks : mayRun(r) /\ LevelIdle(r) /\ unitSame
    \/ \E r \in Ranks : mayRun(r) /\ RoundSend(r) /\ unitSame
    \/ \E r \in Ranks : mayRun(r) /\ RoundRecv(r) /\ unitSame
    \/ \E r \in Ranks : mayRun(r) /\ RoundIdle(r) /\ unitSame
    \/ \E r \in Ranks : mayRun(r) /\ GatherSend(r) /\ unitSame
    \/ \E r \in Ranks : mayRun(r) /\ GatherRecv(r) /\ unitSame
    \/ \E r \in Ranks : mayRun(r) /\ FirstCompareSwap(r) /\ unitSame
    \/ \E r \in Ranks : mayRun(r) /\ GatherContribute(r) /\ unitSame
    \/ \E r \in Ranks : mayRun(r) /\ GatherRoot(r) /\ unitSame

Spec == Init /\ [][Next]_vars

\* the programs on one input each, with progress: as long as some rank can take a
\* step, a step is eventually taken (every MPI process runs on its own)
FairSpec == OneInputInit /\ [][Next]_vars /\ WF_vars(Next)

\* compareSwap alone, on every small buffer
CsNext == CsCall /\ UNCHANGED <<distVars, subVars>>

InitCompareSwap == distIdle /\ subIdle /\ CsInit

SpecCompareSwap == InitCompareSwap /\ [][CsNext]_vars

\* isInSubset alone, on every small geometry
SubNext ==
    \/ SubCall /\ UNCHANGED <<distVars, csVars>>
    \/ SubQuery /\ UNCHANGED <<distVars, csVars>>

InitIsInSubset == distIdle /\ csIdle /\ SubInit

SpecIsInSubset == InitIsInSubset /\ [][SubNext]_vars

\* the programs started with any number of processes >= 2, on one input each: the
\* code takes nb_instances as MPI_Comm_size gives it (lines 124, 266)
AnyTopologyInit ==
    /\ prog \in {"arbitrary", "bitonic"}
    /\ nb_instances \in 2..MaxInstances
    /\ n = (nb_instances - 1) * 2
    /\ sched \in {"rankorder"} \cup (IF n <= MaxFreeN THEN {"any"} ELSE {})
    /\ sendMode = "buffered"
    /\ mayLose = FALSE /\ lost = {}
    /\ A = oneInput(prog, n)
    /\ start
    /\ csIdle /\ subIdle

SpecAnyTopology == AnyTopologyInit /\ [][Next]_vars

\* the programs on one input each, over a transport whose sends are buffered or
\* synchronous
SendModesInit ==
    /\ prog \in {"arbitrary", "bitonic"}
    /\ nb_instances \in Instances
    /\ n = (nb_instances - 1) * 2
    /\ sched \in {"rankorder"} \cup (IF n <= MaxFreeN THEN {"any"} ELSE {})
    /\ sendMode \in {"buffered", "synchronous"}
    /\ mayLose = FALSE /\ lost = {}
    /\ A = oneInput(prog, n)
    /\ start
    /\ csIdle /\ subIdle

\* with progress: as long as some rank can take a step, a step is eventually taken
FairSpecSendModes == SendModesInit /\ [][Next]_vars /\ WF_vars(Next)

\* the programs on one input each, over a transport that may lose one message
LossInit ==
    /\ prog \in {"arbitrary", "bitonic"}
    /\ nb_instances \in Instances
    /\ n = (nb_instances - 1) * 2
    /\ sched \in {"rankorder"} \cup (IF n <= MaxFreeN THEN {"any"} ELSE {})
    /\ sendMode = "buffered"
    /\ mayLose = TRUE /\ lost = {}
    /\ A = oneInput(prog, n)
    /\ start
    /\ csIdle /\ subIdle

SpecLoss == LossInit /\ [][Next]_vars

AllDone == \A r \in Ranks : pc[r] = "done"

----------------------------------------------------------------------------
(* Notions used by the properties *)

\* how often v occurs in the sequence s
countIn(s, v) == Cardinality({i \in DOMAIN s : s[i] = v})

\* the two sequences hold the same multiset of elements
sameElements(s, t) ==
    /\ Len(s) = Len(t)
    /\ \A i \in DOMAIN s : countIn(s, s[i]) = countIn(t, s[i])

nonDecreasing(s) == \A i \in 1..(Len(s) - 1) : s[i] <= s[i + 1]

nonIncreasing(s) == \A i \in 1..(Len(s) - 1) : s[i] >= s[i + 1]

\* s rises then falls, or is a cyclic rotation of such a sequence
isBitonic(s) ==
    \E d \in 0..(Len(s) - 1) : \E p \in 0..Len(s) :
        /\ nonDecreasing(SubSeq(rotated(s, d), 1, p))
        /\ nonIncreasing(SubSeq(rotated(s, d), p + 1, Len(s)))

----------------------------------------------------------------------------
(* compareSwap: C6, C9, C10 *)

\* C6: after a call compareSwap(buf, n, ascending) with n even, for every i in
\* [0, n/2) the pair (buf[i], buf[i+n/2]) holds the two values it held before,
\* with buf[i] <= buf[i+n/2] when ascending and buf[i] >= buf[i+n/2] when
\* descending, and every element at an index >= n is unchanged.
C6_CompareSwapPost ==
    (csCalls >= 1 /\ csN % 2 = 0) =>
        /\ DOMAIN csBuf = DOMAIN csPrev
        /\ \A i \in 0..((csN \div 2) - 1) :
             LET h == csN \div 2
             IN  /\ \/ csBuf[i] = csPrev[i] /\ csBuf[i + h] = csPrev[i + h]
                    \/ csBuf[i] = csPrev[i + h] /\ csBuf[i + h] = csPrev[i]
                 /\ IF csAsc THEN csBuf[i] <= csBuf[i + h] ELSE csBuf[i] >= csBuf[i + h]
        /\ \A j \in DOMAIN csBuf : j >= csN => csBuf[j] = csPrev[j]

\* a first call, descending, that swapped a pair and left elements beyond n alone
C6_Witness ==
    /\ csCalls = 1 /\ csN = 2 /\ ~csAsc
    /\ csSwapped # {}
    /\ csBuf # csPrev
    /\ \E j \in DOMAIN csBuf : j >= csN

\* C9: compareSwap is idempotent: a second call with the same n and direction
\* leaves the buffer as the first call left it.
C9_Idempotent ==
    csCalls = 2 => csBuf = csPrev

\* two calls were made, and the first one changed the buffer
C9_Witness ==
    /\ csCalls = 2 /\ csN = 4
    /\ csPrev # csOrig

\* C10: a pair of equal elements never enters the swap branch, in either direction.
C10_TiesNeverSwap ==
    csCalls >= 1 =>
        \A i \in csSwapped : csPrev[i] # csPrev[i + (csN \div 2)]

----------------------------------------------------------------------------
(* isInSubset: C7 *)

\* the steps the property is about: step >= 1 dividing half
divides(a, b) == a >= 1 /\ b % a = 0

\* C7: for step >= 1 dividing half, the predicate isInSubset(half, step, offset)
\* is true of a rank iff rank = offset + j*(half/step) for some 0 <= j < step; the
\* subset has exactly step members, the lowest being offset.
C7_SubsetMembers ==
    (subCalled /\ divides(subStep, subHalf)) =>
        /\ \A rank \in 0..(MaxHalf + MaxOffset) :
             inNodes(subNodes, rank) <=>
                \E j \in 0..(subStep - 1) : rank = subOffset + j * (subHalf \div subStep)
        /\ Cardinality({subNodes[j] : j \in 1..Len(subNodes)}) = subStep
        /\ \A j \in 1..Len(subNodes) : subNodes[j] >= subOffset
        /\ inNodes(subNodes, subOffset)
        /\ subRank >= 0 =>
             (subResult <=>
                \E j \in 0..(subStep - 1) : subRank = subOffset + j * (subHalf \div subStep))

\* the lambda answered true for the highest member of a subset of four
C7_Witness ==
    /\ subCalled /\ subHalf = 8 /\ subStep = 4 /\ subOffset = 1
    /\ subRank = 7 /\ subResult

----------------------------------------------------------------------------
(* The arbitrary-sequence program: C1, C3, C4, C5 *)

\* C1: in the arbitrary-sequence program, for n a power of two >= 4 and an input
\* that is a permutation of n distinct values, once all ranks have finished rank 0's
\* buf[0..n) holds the input values in non-decreasing order, whatever the order in
\* which the ranks took their steps; the built-in sequence of n = 16 gives 1..16.
C1_ArbitrarySorted ==
    (prog = "arbitrary" /\ AllDone) =>
        /\ nonDecreasing(Slice(buf[0], 0, n))
        /\ sameElements(Slice(buf[0], 0, n), A)
        /\ n = 16 => Slice(buf[0], 0, n) = [j \in 1..16 |-> j]

\* the built-in sequence of n = 16 has been sorted
C1_Witness ==
    /\ prog = "arbitrary" /\ AllDone
    /\ A = A_arbitrary
    /\ Slice(buf[0], 0, n) = [j \in 1..16 |-> j]

\* C2: in the bitonic-sequence program (ascending = true), for n a power of two >= 4
\* and a bitonic input, rotations included, rank 0's buf[0..n) finally holds the same
\* multiset of elements in non-decreasing order; the built-in sequence of n = 16
\* gives 1..16.
C2_BitonicSorted ==
    (prog = "bitonic" /\ AllDone) =>
        /\ isBitonic(A)
        /\ nonDecreasing(Slice(buf[0], 0, n))
        /\ sameElements(Slice(buf[0], 0, n), A)
        /\ n = 16 => Slice(buf[0], 0, n) = [j \in 1..16 |-> j]

\* the built-in bitonic sequence of n = 16 has been merged
C2_Witness ==
    /\ prog = "bitonic" /\ AllDone
    /\ A = A_bitonic
    /\ Slice(buf[0], 0, n) = [j \in 1..16 |-> j]

\* the number of levels of the arbitrary program: widths 4, 8, ..., n
levels == CHOOSE l \in 0..n : 2 ^ (l + 1) = n

\* the width of level j
widthOf(j) == 2 ^ (j + 1)

\* the sub-coordinators of the level of width kk
mastersAt(kk) == {r \in 0..((n \div 2) - 1) : r % (kk \div 2) = 0}

\* at the level of width n there is one group, whose coordinator is rank 0, and a
\* rank that has finished has left the loop with k = 2n
lastLevelIsOneGroup ==
    prog = "arbitrary" =>
        \A r \in Ranks :
            /\ pc[r] = "done" => k[r] = 2 * n
            /\ (pc[r] \in {"round", "gather"} /\ k[r] = n) =>
                   groupIndex(r) = {0} /\ masterOf(r) = 0
            /\ Len(ret[r]) = levels => r = 0
            /\ Len(ret[r]) <= levels

\* no state is a deadlock: a rank can take a step until all have finished
noDeadlock == AllDone \/ \E r \in Ranks : ~blocked(r)

\* C3: with buffered sends on reliable FIFO channels and n a power of two >= 4, in
\* both programs every rank eventually reaches the end of its program, whatever the
\* order of the steps; in the arbitrary program the level loop ends after the
\* level k = n, at which one group, coordinated by rank 0, is merged.
C3_Termination == <>AllDone /\ []noDeadlock /\ []lastLevelIsOneGroup

\* all ranks of the arbitrary program with n = 8 have finished, stepped in any order
C3_Witness ==
    /\ prog = "arbitrary" /\ sched = "any" /\ n = 8
    /\ AllDone
    /\ Len(ret[0]) = 2 /\ Len(ret[0][2]) = 8

RECURSIVE runsFrom(_, _)
\* the runs the sub-coordinators r, r + 2^j, ... returned from level j, one after another
runsFrom(j, r) ==
    IF r >= n \div 2 THEN <<>>
    ELSE ret[r][j] \o runsFrom(j, r + (widthOf(j) \div 2))

\* C4: once every group of a level k of the arbitrary program has been merged, the
\* runs buf[0..k) of the sub-coordinators, taken together, are a permutation of the
\* input: n elements, none duplicated or dropped.
C4_LevelKeepsElements ==
    prog = "arbitrary" =>
        \A j \in 1..levels :
            (\A r \in mastersAt(widthOf(j)) : Len(ret[r]) >= j) =>
                /\ \A r \in mastersAt(widthOf(j)) : Len(ret[r][j]) = widthOf(j)
                /\ Len(runsFrom(j, 0)) = n
                /\ sameElements(runsFrom(j, 0), A)

\* with n = 8 and free scheduling both groups of level 4 are merged, level 8 is not
C4_Witness ==
    /\ prog = "arbitrary" /\ sched = "any" /\ n = 8
    /\ Len(ret[0]) = 1 /\ Len(ret[2]) = 1
    /\ runsFrom(1, 0) # A

\* C5: when bitonicSort is run by the ranks of a group and the master's buf[0..k) is
\* bitonic on entry, on the master's return buf[0..k) is the same multiset, sorted
\* non-decreasing if ascending and non-increasing otherwise; in the arbitrary program
\* group i of a level is merged ascending iff i is even.
C5_MergePost ==
    \A r \in Ranks : \A j \in 1..Len(ret[r]) :
        LET kk == IF prog = "bitonic" THEN n ELSE widthOf(j)
            asc == IF prog = "bitonic" THEN TRUE ELSE (r \div (kk \div 2)) % 2 = 0
        IN  isBitonic(entry[r][j]) =>
                /\ Len(ret[r][j]) = kk
                /\ sameElements(ret[r][j], entry[r][j])
                /\ IF asc THEN nonDecreasing(ret[r][j]) ELSE nonIncreasing(ret[r][j])

\* group 1 of level 4 (master 2) was merged descending from a bitonic run
C5_Witness ==
    /\ prog = "arbitrary" /\ sched = "any" /\ n = 8
    /\ Len(ret[2]) = 1
    /\ isBitonic(entry[2][1])
    /\ ret[2][1] # entry[2][1]
    /\ nonIncreasing(ret[2][1])

----------------------------------------------------------------------------
(* The halving rounds: C8 *)

\* the elements of a vector of nodes
nodeSet(nodes) == {nodes[j] : j \in 1..Len(nodes)}

\* C8: in every halving round of every merge (width k, half m, stride step) the
\* sender subset and the receiver subset are disjoint, each has exactly step
\* members, together 2 * step <= k / 2 members, all of them ranks of the group
\* [master, master + k/2).
C8_RolesDisjoint ==
    \A r \in Ranks :
        (pc[r] = "round" /\ m[r] > 1 /\ (prog = "bitonic" \/ groupIndex(r) # {})) =>
            LET S == nodeSet(senderNodes(r))
                R == nodeSet(receiverNodes(r))
            IN  /\ S \cap R = {}
                /\ Cardinality(S) = step[r] /\ Len(senderNodes(r)) = step[r]
                /\ Cardinality(R) = step[r] /\ Len(receiverNodes(r)) = step[r]
                /\ Cardinality(S \cup R) = 2 * step[r]
                /\ 2 * step[r] <= k[r] \div 2
                /\ \A q \in S \cup R : masterOf(r) <= q /\ q < masterOf(r) + (k[r] \div 2)

\* a round with two senders and two receivers in a group whose master is not rank 0
C8_Witness ==
    \E r \in Ranks :
        /\ prog = "arbitrary" /\ pc[r] = "round"
        /\ m[r] = 2 /\ step[r] = 2 /\ k[r] = 8
        /\ masterOf(r) = 4
        /\ isAReceiver(r)

----------------------------------------------------------------------------
(* Process counts the programs are not made for: C11 *)

\* n = 2 * (nb_instances - 1) is a power of two >= 4
validTopology == nb_instances \in Instances

\* nothing has been exchanged: no rank is past MPI_Scatter or in MPI_Gather, no chunk
\* or message has been handed to the transport, and no rank other than 0 has stored
\* received data in its buffer
nothingExchanged ==
    /\ \A r \in Ranks : pc[r] \in {"scatter", "start", "round", "gather"}
    /\ \A r \in Ranks : scat[r] = <<>> /\ gath[r] = <<>>
    /\ \A p \in DOMAIN chan : chan[p] = <<>>
    /\ \A r \in Ranks \ {0} : \A j \in DOMAIN buf[r] : buf[r][j] = Uninit

\* C11: when the process count does not give an n that is a power of two >= 4, the
\* program stops with an error before any scatter, send or receive is performed.
C11_MismatchStopsBeforeExchange ==
    ~validTopology => nothingExchanged

----------------------------------------------------------------------------
(* The regroup step: C12 *)

\* the pair rank r holds after the scatter and the compareSwap of line 153
pairOf(r) ==
    LET b == compareSwap([j \in 0..1 |-> A[2 * r + j + 1]], 2, r % 2 = 0)
    IN  <<b[0], b[1]>>

\* the run rank r holds when level j begins: its pair, or what it returned from the
\* merge of level j - 1
runBefore(j, r) == IF j = 1 THEN pairOf(r) ELSE ret[r][j - 1]

\* C12: in the arbitrary program, when the sub-coordinator g * (k/2) of a group enters
\* bitonicSort at level k, its buf[0..k) is the run rank g * (k/2) held at the end of
\* the previous level followed by the run rank g * (k/2) + k/4 held then (for k = 4
\* the two compare-swapped pairs), and these k elements form a bitonic sequence.
C12_RegroupGivesBitonic ==
    prog = "arbitrary" =>
        \A r \in Ranks : \A j \in 1..Len(entry[r]) :
            /\ r % (widthOf(j) \div 2) = 0
            /\ Len(entry[r][j]) = widthOf(j)
            /\ entry[r][j] = runBefore(j, r) \o runBefore(j, r + (widthOf(j) \div 4))
            /\ isBitonic(entry[r][j])

\* rank 0 has entered the merge of level 8 with two different runs of length 4, the
\* second one received from rank 2 and not in increasing order
C12_Witness ==
    /\ prog = "arbitrary" /\ sched = "any" /\ n = 8
    /\ Len(entry[0]) = 2
    /\ SubSeq(entry[0][2], 5, 8) = ret[2][1]
    /\ ~nonDecreasing(ret[2][1])
    /\ entry[0][2] # A

----------------------------------------------------------------------------
(* The exchange of a halving round: C13 *)

\* rank r is in a halving round and this step takes it to the next round
roundStepOf(r) == pc[r] = "round" /\ m[r] > 1 /\ m'[r] # m[r]

\* in the round rank r is in, every sender has its receiver m/2 above it and every
\* receiver its sender m/2 below it, in the same group
pairedRoles ==
    \A r \in Ranks :
        (pc[r] = "round" /\ m[r] > 1) =>
            LET S == nodeSet(senderNodes(r))
                R == nodeSet(receiverNodes(r))
                h == m[r] \div 2
            IN  /\ \A q \in S : q + h \in R /\ q + h < masterOf(r) + (k[r] \div 2)
                /\ \A q \in R : q - h \in S /\ q - h >= masterOf(r)

\* what the round step of rank r does to the channels and to its buffer
roundExchange(r) ==
    LET h == m[r] \div 2
    IN  IF r \in nodeSet(senderNodes(r))
        THEN /\ chan' = [chan EXCEPT ![<<r, r + h>>] =
                             Append(@, [j \in 1..m[r] |-> buf[r][m[r] + j - 1]])]
             /\ buf'[r] = compareSwap(buf[r], m[r], ascendingOf(r))
        ELSE IF r \in nodeSet(receiverNodes(r))
        THEN /\ chan[<<r - h, r>>] # <<>>
             /\ Len(Head(chan[<<r - h, r>>])) = m[r]
             /\ chan' = [chan EXCEPT ![<<r - h, r>>] = Tail(@)]
             /\ LET got == Head(chan[<<r - h, r>>])
                    b == [j \in DOMAIN buf[r] |-> IF j < m[r] THEN got[j + 1] ELSE buf[r][j]]
                IN  buf'[r] = compareSwap(b, m[r], ascendingOf(r))
        ELSE chan' = chan /\ buf'[r] = buf[r]

\* C13: in every halving round with half m, for every sender r the rank r + m/2 is a
\* receiver of the same round and group, and for every receiver r the rank r - m/2 is
\* a sender; a sender's round step sends exactly one message, its buf[m..2m), to
\* r + m/2, a receiver's round step takes exactly one message of m elements from
\* r - m/2 into buf[0..m), and both then apply compareSwap to their first m elements.
C13_RoundPairing ==
    /\ []pairedRoles
    /\ [][\A r \in Ranks : roundStepOf(r) => roundExchange(r)]_vars

\* a receiver two ranks above its sender has taken its message of 4 elements in the
\* first round of the merge of width 8 and moved on to the next round
C13_Witness ==
    /\ prog = "arbitrary" /\ sched = "any" /\ n = 8
    /\ k[2] = 8 /\ pc[2] = "round" /\ m[2] = 2
    /\ pc[0] = "round" /\ m[0] = 2 /\ chan[<<0, 2>>] = <<>>
    /\ Slice(buf[2], 0, 4) # ret[2][1]

----------------------------------------------------------------------------
(* The end of the halving loop and the terminal gather: C14 *)

\* the merge rank q is in: the number of its master's calls of bitonicSort so far
mergeOf(q) == Len(entry[masterOf(q)])

\* the position v has in the run once it is sorted in the direction asc
positionIn(run, v, asc) ==
    Cardinality({i \in DOMAIN run : IF asc THEN run[i] < v ELSE run[i] > v})

\* a rank of a group that has left the halving loop holds the two elements of its
\* positions in the sorted run; the master has stored the pairs below gi in place,
\* and has no message from itself
finalPairs ==
    \A q \in 0..((n \div 2) - 1) :
        pc[q] = "gather" =>
            /\ mergeOf(q) >= 1
            /\ prog = "arbitrary" => widthOf(mergeOf(q)) = k[q]
            /\ LET run == entry[masterOf(q)][mergeOf(q)]
                   j == q - masterOf(q)
                   sortedUpTo(c) ==
                       \A i \in 0..(c - 1) :
                           /\ \E e \in DOMAIN run : run[e] = buf[q][i]
                           /\ positionIn(run, buf[q][i], ascendingOf(q)) = i
               IN  /\ Len(run) = k[q]
                   /\ \A c \in 0..1 :
                        /\ \E e \in DOMAIN run : run[e] = buf[q][c]
                        /\ positionIn(run, buf[q][c], ascendingOf(q)) = 2 * j + c
                   /\ (prog = "arbitrary" /\ q = masterOf(q)) =>
                        gi[q] >= 1 /\ sortedUpTo(2 * gi[q])
            /\ chan[<<q, q>>] = <<>>

\* rank r is the master in the terminal gather and this step is an iteration of its loop
gatherStepOf(r) == prog = "arbitrary" /\ pc[r] = "gather" /\ gi'[r] # gi[r]

\* the iteration i = gi[r] takes the message of rank r + i, which is the pair that
\* rank holds, and stores it at buf[2i], buf[2i + 1]
gatherStores(r) ==
    LET i == gi[r]
    IN  /\ gi'[r] = i + 1
        /\ 1 <= i /\ i < k[r] \div 2
        /\ chan[<<r + i, r>>] # <<>>
        /\ chan' = [chan EXCEPT ![<<r + i, r>>] = Tail(@)]
        /\ buf'[r] = [c \in DOMAIN buf[r] |->
                         IF c = 2 * i THEN buf[r + i][0]
                         ELSE IF c = 2 * i + 1 THEN buf[r + i][1]
                         ELSE buf[r][c]]

\* C14: when the halving loop of a merge of width k has ended, rank master + j holds in
\* buf[0..2) the elements of positions 2j and 2j+1 of the group's run sorted in the
\* merge direction; the terminal gather stores the pair of rank master + i at the
\* master's buf[2i..2i+2) for i = 1 .. k/2-1 in increasing order of i, and the master
\* sends nothing to itself.
C14_FinalPositions ==
    /\ []finalPairs
    /\ [][\A r \in Ranks : gatherStepOf(r) => gatherStores(r)]_vars

\* the master of the merge of width 8 has stored the pairs of ranks 1 and 2 and waits
\* for the pair of rank 3, which rank 3 has sent
C14_Witness ==
    /\ prog = "arbitrary" /\ sched = "any" /\ n = 8
    /\ k[0] = 8 /\ pc[0] = "gather" /\ gi[0] = 3
    /\ Len(chan[<<3, 0>>]) = 1
    /\ Slice(buf[0], 0, 6) # SubSeq(entry[0][2], 1, 6)

----------------------------------------------------------------------------
(* Synchronous sends: C15 *)

\* C15: when a send completes only once the destination has posted the matching
\* receive, every rank of the arbitrary program still runs to completion.
C15_SynchronousSendCompletes ==
    (prog = "arbitrary" /\ sendMode = "synchronous") => <>AllDone

----------------------------------------------------------------------------
(* Order of the rounds of a merge: C16 *)

\* rank x has left the round of half h of the merge of width kk of bitonicSort
passedRound(x, kk, h) ==
    \/ k[x] = kk /\ pc[x] \in {"round", "gather"} /\ m[x] < h
    \/ k[x] > kk

\* the senders of the round of half h in the merge rank q is in
sendersOfRound(q, h) == nodeSet(subsetNodes(k[q] \div 2, (k[q] \div 2) \div h, masterOf(q)))

\* C16: within a merge, no rank of the group begins the next round of the halving
\* loop before every exchange of the round before it has completed in the group:
\* when a rank is in the round of half m, every sender of the round of half 2m has
\* sent and its receiver has received.
C16_RoundsInLockstep ==
    \A q \in 0..((n \div 2) - 1) :
        (prog = "arbitrary" /\ pc[q] = "round" /\ m[q] > 1 /\ 2 * m[q] <= k[q] \div 2) =>
            \A s \in sendersOfRound(q, 2 * m[q]) :
                /\ passedRound(s, k[q], 2 * m[q])
                /\ passedRound(s + m[q], k[q], 2 * m[q])

----------------------------------------------------------------------------
(* A lost message: C17 *)

\* the sub-coordinator of the group rank d is in at the level of width kk
coordinatorAt(d, kk) ==
    IF prog = "bitonic" THEN 0 ELSE (d \div (kk \div 2)) * (kk \div 2)

\* the number of merges a sub-coordinator has returned from once the level of width kk
\* is done
mergesUpTo(kk) == IF prog = "bitonic" THEN 1 ELSE CHOOSE j \in 1..n : widthOf(j) = kk

\* rank d is in the receive the lost message l was sent for
awaits(d, l) ==
    /\ l[2] = d /\ k[d] = l[3]
    /\ \/ l[4] = "level" /\ pc[d] = (IF l[1] = d THEN "regroup1" ELSE "regroup2")
       \/ /\ l[4] = "round" /\ pc[d] = "round" /\ m[d] > 1
          /\ ~isASender(d) /\ isAReceiver(d) /\ sender(d) = l[1]
       \/ l[4] = "gather" /\ pc[d] = "gather" /\ d = masterOf(d) /\ d + gi[d] = l[1]

\* what a rank holds and where it is
localState(r) == <<pc[r], k[r], m[r], step[r], gi[r], buf[r]>>

\* after a loss: the destination is not past the level of the lost message, its receive
\* finds no message, the sub-coordinator of its group has not returned from the merge
\* of that level, and the program has not finished
stalledByLoss ==
    \A l \in lost :
        /\ pc[l[2]] # "done" /\ k[l[2]] <= l[3]
        /\ awaits(l[2], l) => chan[<<l[1], l[2]>>] = <<>> /\ blocked(l[2])
        /\ Len(ret[coordinatorAt(l[2], l[3])]) < mergesUpTo(l[3])
        /\ ~AllDone

\* C17: if a message of a level (a regroup message, a round exchange or a gather
\* message) is lost, the rank waiting for it blocks forever and the sub-coordinator of
\* its group never returns from the merge of that level; no rank times out, retries
\* or goes on with partial data.
C17_LossStallsGroup ==
    /\ []stalledByLoss
    /\ [][\A l \in lost : awaits(l[2], l) =>
              localState(l[2])' = localState(l[2]) /\ awaits(l[2], l)']_vars

\* the round message of rank 0 to rank 2 in the merge of width 8 was lost; rank 2
\* waits for it and no rank can take a step
C17_Witness ==
    /\ prog = "arbitrary" /\ n = 8
    /\ lost = {<<0, 2, 8, "round">>}
    /\ awaits(2, <<0, 2, 8, "round">>)
    /\ \A r \in Ranks : blocked(r)
    /\ pc[0] = "gather" /\ gi[0] = 2

----------------------------------------------------------------------------
(* Groups of a level: C18 *)

\* the group of width kk that holds rank r: [g * (kk/2), (g+1) * (kk/2))
groupOf(r, kk) == r \div (kk \div 2)

\* at a level k each worker rank satisfies the test of line 176 for exactly one i,
\* the number of its group, and the extra rank n/2 for none
oneGroupEach ==
    prog = "arbitrary" =>
        \A r \in Ranks :
            (4 <= k[r] /\ k[r] <= n) =>
                IF r < n \div 2
                THEN groupIndex(r) = {groupOf(r, k[r])}
                ELSE groupIndex(r) = {}

\* a message handed to the channel from s to d by this step stays inside the group
\* of s at the level s is in
sentInsideGroup(s, d) ==
    Len(chan'[<<s, d>>]) > Len(chan[<<s, d>>]) =>
        /\ 4 <= k[s] /\ k[s] <= n
        /\ s < n \div 2 /\ d < n \div 2
        /\ groupOf(s, k[s]) = groupOf(d, k[s])

\* C18: in the arbitrary program, at every level k each worker rank in [0, n/2) is in
\* exactly one group [g * (k/2), (g+1) * (k/2)), so that the loop of lines 174-180
\* calls bitonicSort for it exactly once, and every message sent during the level
\* (regroup, round exchange, gather) has its source and its destination in the same
\* group.
C18_GroupIsolation ==
    /\ []oneGroupEach
    /\ [][prog = "arbitrary" => \A s \in Ranks, d \in Ranks : sentInsideGroup(s, d)]_vars

\* rank 3 of the second group of level 4 has sent its pair to its master, rank 2
\* while the first group has not finished its merge
C18_Witness ==
    /\ prog = "arbitrary" /\ sched = "any" /\ n = 8
    /\ Len(chan[<<3, 2>>]) = 1 /\ k[2] = 4 /\ pc[2] = "gather"
    /\ k[0] = 4 /\ pc[0] = "round"

----------------------------------------------------------------------------
(* Matching of sends and receives: C19 *)

\* the receive rank d is in when it takes a message from s: the pc its sender had,
\* and the count the receive asks for
recvKind(d) ==
    IF pc[d] \in {"regroup1", "regroup2"} THEN "level" ELSE pc[d]

recvCount(d) ==
    IF pc[d] \in {"regroup1", "regroup2"} THEN k[d] \div 2
    ELSE IF pc[d] = "round" THEN m[d]
    ELSE 2

\* this step takes a message from the channel from s to d
takes(s, d) == Len(chan'[<<s, d>>]) < Len(chan[<<s, d>>])

\* the message d takes from s is the oldest one, was sent by s for the step d is in
\* (same level, same kind of exchange), has the length the receive asks for, and is
\* taken by the receive whose source is s
matched(s, d) ==
    /\ recvPosted(d, s)
    /\ chan'[<<s, d>>] = Tail(chan[<<s, d>>])
    /\ Head(sentAt[<<s, d>>]) = <<k[d], recvKind(d)>>
    /\ Len(Head(chan[<<s, d>>])) = recvCount(d)

\* no message is left on a channel
noneUndelivered == \A p \in DOMAIN chan : chan[p] = <<>>

\* C19: with the single tag and FIFO delivery per pair, under every interleaving each
\* receive (regroup, round exchange, gather, at every level) obtains the message that
\* was sent for the same step, of the length the receive asks for, and when all ranks
\* have finished no channel holds an undelivered message.
C19_MessagesMatch ==
    /\ [][\A s \in Ranks, d \in Ranks : takes(s, d) => matched(s, d)]_vars
    /\ [](AllDone => noneUndelivered)

\* all ranks have finished the arbitrary program with n = 8, stepped in any order,
\* after rank 0 took three pairs in the gather of the last level
C19_Witness ==
    /\ prog = "arbitrary" /\ sched = "any" /\ n = 8
    /\ AllDone /\ noneUndelivered
    /\ gi[0] = 4 /\ Len(ret[0]) = 2

----------------------------------------------------------------------------
(* Buffer bounds: C20 *)

\* C20: with the n-element buffer of each rank (n = 2 * (nb_instances - 1)), every
\* buffer index read or written by any rank stays in [0, n), the elements read by
\* the scatter at rank 0 of the arbitrary program and the elements written by the
\* gather at rank 0 of the bitonic program included.
C20_BufferBounds ==
    \A access \in oob : access[2] >= 0 /\ access[2] < n

====
